---- MODULE Spec2Model ----
(***************************************************************************)
(* Model of the cooperative task manager of os3 (src/os3-ref/src/task).    *)
(* One TaskManager (TASK_MANAGER) owns a pool of TaskControlBlocks and the *)
(* index of the current task.  The kernel flow is modelled by `pc`, the    *)
(* position of the single processor in the scheduler's code.               *)
(***************************************************************************)
EXTENDS Integers, FiniteSets, Sequences, TLC

\* ---------------------------------------------------------------- bounds
\* pool capacity (crate::config::MAX_APP_NUM), scaled down
MAX_APP_NUM == 3
\* width of the dense counter array (crate::config::MAX_SYSCALL_NUM), scaled down
MAX_SYSCALL_NUM == 2
\* total number of increase_syscall_count calls in one run
MaxCalls == 3
\* largest clock reading, in microseconds
MaxTime == 1000

\* ------------------------------------------------------------- constants
\* microseconds per millisecond, the divisor of get_current_task_info
US_PER_MS == 1000
\* the advances of the clock between two readings, in microseconds
TickSteps == {500}

TaskIds == 0 .. (MAX_APP_NUM - 1)
\* the syscall ids presented: the last id inside the dense array and the
\* first one outside it (ids are u16 in the source)
SyscallIds == {MAX_SYSCALL_NUM - 1, MAX_SYSCALL_NUM}
\* Option<usize>::None of find_next_task
NoTask == -1
\* the boot flow of control (the caller of run_first_task)
BootFlow == -1
\* no TaskInfo has been returned
NoInfo == [status |-> "none"]
\* BTreeMap::new()
EmptyMap == [k \in {} |-> 0]
\* TaskContext::zero_init(): no resume point, no flow
ZeroCx == [ra |-> "zero", flow |-> -2]
\* TaskContext::goto_restore(init_app_cx(i)): the entry of app i
EntryCx(i) == [ra |-> "entry", flow |-> i]
\* what __switch stores: the resume point inside the __switch call of flow f
SavedCx(f) == [ra |-> "switch", flow |-> f]

VARIABLES
    num_app,        \* TaskManager.num_app
    tasks,          \* TaskManagerInner.tasks
    current_task,   \* TaskManagerInner.current_task
    borrowed,       \* UPSafeCell: exclusive access is held
    pc,             \* position of the kernel flow
    next,           \* run_next_task: the id find_next_task returned
    current,        \* run_next_task: local `current` (the outgoing task)
    flow,           \* the instruction stream that is executing
    now,            \* the clock: what get_time_us() returns
    info,           \* the TaskInfo last returned by get_current_task_info
    calls,          \* history: increase_syscall_count calls per task and id
    snap,           \* history: time of the last TaskInfo of each task
    ncalls,         \* history: number of increase_syscall_count calls
    dispatched,     \* history: the tasks that have been marked Running
    since           \* history: since[t][j] counts the dispatches of j while
                    \*          t has been waiting as Ready (2 = two or more)

vars == <<num_app, tasks, current_task, borrowed, pc, next, current, flow,
          now, info, calls, snap, ncalls, dispatched, since>>

\* ------------------------------------------------------------ TASK_MANAGER
\* one slot of vec![TaskControlBlock {..}; MAX_APP_NUM]
UnInitTCB ==
    [task_cx |-> ZeroCx, task_status |-> "UnInit",
     syscall_times |-> EmptyMap, init_time |-> 0]

\* the slot after the loader loop: goto_restore(init_app_cx(i)), Ready
ReadyTCB(i) == [UnInitTCB EXCEPT !.task_cx = EntryCx(i), !.task_status = "Ready"]

\* line 76: current_task: 0
InitCurrentTask == 0

Init ==
    /\ num_app \in 0 .. MAX_APP_NUM
    /\ tasks = [i \in TaskIds |-> IF i < num_app THEN ReadyTCB(i) ELSE UnInitTCB]
    /\ current_task = InitCurrentTask
    /\ borrowed = FALSE
    /\ pc = "boot"
    /\ next = NoTask
    /\ current = 0
    /\ flow = BootFlow
    /\ now = 0
    /\ info = NoInfo
    /\ calls = [t \in TaskIds |-> [id \in SyscallIds |-> 0]]
    /\ snap = [t \in TaskIds |-> -1]
    /\ ncalls = 0
    /\ dispatched = {}
    /\ since = [t \in TaskIds |-> [j \in TaskIds |-> 0]]

\* ------------------------------------------------------------- UPSafeCell
\* exclusive_access(): panics when the cell is already borrowed
BorrowPanic ==
    /\ pc' = "borrow_panic"
    /\ UNCHANGED <<num_app, tasks, current_task, borrowed, next, current,
                   flow, now, info, calls, snap, ncalls,
                   dispatched, since>>

ExclusiveAccess(body) == IF borrowed THEN BorrowPanic ELSE body

\* ------------------------------------------------------------ clock
Tick ==
    /\ pc \notin {"halted", "crashed", "borrow_panic", "index_panic"}
    /\ \E d \in TickSteps :
          /\ now + d <= MaxTime
          /\ now' = now + d
    /\ UNCHANGED <<num_app, tasks, current_task, borrowed, pc, next, current,
                   flow, info, calls, snap, ncalls,
                   dispatched, since>>

\* ------------------------------------------------------------ __switch
\* the flow resumed by loading context cx; a zero context has ra = 0 and the
\* jump is wild: the machine wedges or the trap path runs on as slot 0
LoadedFlow(cx, id) == IF cx.ra = "zero" THEN id ELSE cx.flow

\* ------------------------------------------------------------ dispatch history
\* the waiting counts after task j has been marked Running: j stops waiting,
\* every task that is Ready has seen one more dispatch of j
SinceAfterDispatch(j) ==
    [t \in TaskIds |->
        IF t = j THEN [k \in TaskIds |-> 0]
        ELSE IF tasks[t].task_status = "Ready"
             THEN [since[t] EXCEPT ![j] = IF @ >= 2 THEN 2 ELSE @ + 1]
             ELSE since[t]]

\* ------------------------------------------------------------ run_first_task
\* mutant: run_first_task does not record the start time
FirstStamp_Skipped(old, t) == old

\* line 98: task0.init_time = get_time_us(), whatever it held
FirstStamp(old, t) == t

\* lines 95-99: borrow, mark slot 0 Running, stamp its start time
RunFirstTask ==
    /\ pc = "boot"
    /\ ExclusiveAccess(
          /\ tasks' = [tasks EXCEPT ![0].task_status = "Running",
                                    ![0].init_time = FirstStamp(@, now)]
          /\ borrowed' = TRUE
          /\ pc' = "rft_held"
          /\ dispatched' = dispatched \cup {0}
          /\ since' = SinceAfterDispatch(0)
          /\ UNCHANGED <<num_app, current_task, next, current, flow, now,
                         info, calls, snap, ncalls>>)

\* line 100: drop(inner)
RunFirstTaskDrop ==
    /\ pc = "rft_held"
    /\ borrowed' = FALSE
    /\ pc' = "rft_switch"
    /\ UNCHANGED <<num_app, tasks, current_task, next, current, flow, now,
                   info, calls, snap, ncalls,
                   dispatched, since>>

\* lines 101-105: __switch(&mut _unused, &task0.task_cx); the boot flow is
\* saved into _unused, which nothing ever loads
RunFirstTaskSwitch ==
    /\ pc = "rft_switch"
    /\ flow' = LoadedFlow(tasks[0].task_cx, 0)
    /\ pc' \in (IF tasks[0].task_cx.ra = "zero" THEN {"crashed", "user"}
                                                ELSE {"user"})
    /\ UNCHANGED <<num_app, tasks, current_task, borrowed, next, current, now,
                   info, calls, snap, ncalls,
                   dispatched, since>>

\* ------------------------------------------------------------ mark_current_*
\* mutant: mark_current_suspended leaves the status as it was
MarkCurrentSuspendedStatus_Kept == "Running"

\* line 113: the status mark_current_suspended stores
MarkCurrentSuspendedStatus == "Ready"

\* mutant: mark_current_exited stores the status of mark_current_suspended
MarkCurrentExitedStatus_Ready == "Ready"

\* mutant: mark_current_exited leaves the status as it was
MarkCurrentExitedStatus_Kept == "Running"

\* line 120: the status mark_current_exited stores
MarkCurrentExitedStatus == "Exited"

\* lines 110-114
MarkCurrentSuspended ==
    /\ pc = "user"
    /\ ExclusiveAccess(
          /\ tasks' = [tasks EXCEPT
                         ![current_task].task_status = MarkCurrentSuspendedStatus]
          /\ pc' = "marked"
          /\ info' = NoInfo
          /\ UNCHANGED <<num_app, current_task, borrowed, next, current, flow,
                         now, calls, snap, ncalls,
                   dispatched, since>>)

\* lines 117-121
MarkCurrentExited ==
    /\ pc = "user"
    /\ ExclusiveAccess(
          /\ tasks' = [tasks EXCEPT ![current_task].task_status =
                                       MarkCurrentExitedStatus]
          /\ pc' = "marked"
          /\ info' = NoInfo
          /\ UNCHANGED <<num_app, current_task, borrowed, next, current, flow,
                         now, calls, snap, ncalls,
                   dispatched, since>>)

\* ------------------------------------------------------------ find_next_task
\* mutant: the scan runs backwards, current - 1 first and current last
ProbeId_Backward(cur, k) == (cur + num_app - k) % num_app

\* mutant: the scan always starts at slot 0
ProbeId_FromZero(cur, k) == (k - 1) % num_app

\* mutant: the scan starts at current instead of current + 1
ProbeId_FromCurrent(cur, k) == (cur + k - 1) % num_app

\* line 130: the k-th id of (current + 1 .. current + num_app + 1), reduced
ProbeId(cur, k) == (cur + k) % num_app

\* mutant: the scan stops before current (current + 1 .. current + num_app)
ReadyProbes_NoSelf(cur) ==
    {k \in 1 .. (num_app - 1) : tasks[ProbeId(cur, k)].task_status = "Ready"}

\* mutant: the scan accepts every task that is not Running
ReadyProbes_NotRunning(cur) ==
    {k \in 1 .. num_app : tasks[ProbeId(cur, k)].task_status # "Running"}

\* line 131: the positions of the scan whose task is Ready
ReadyProbes(cur) ==
    {k \in 1 .. num_app : tasks[ProbeId(cur, k)].task_status = "Ready"}

\* mutant: with no Ready task the scan falls back to the current task
FindNext_OrCurrent(cur) ==
    IF ReadyProbes(cur) = {} THEN cur
    ELSE ProbeId(cur, CHOOSE k \in ReadyProbes(cur) :
                         \A j \in ReadyProbes(cur) : k <= j)

\* lines 128-131: Iterator::find returns the first match, None if none
FindNext(cur) ==
    IF ReadyProbes(cur) = {} THEN NoTask
    ELSE ProbeId(cur, CHOOSE k \in ReadyProbes(cur) :
                         \A j \in ReadyProbes(cur) : k <= j)

\* mutant: the borrow of find_next_task outlives the call
FindNextTask_Held ==
    /\ pc = "marked"
    /\ ExclusiveAccess(
          /\ next' = FindNext(current_task)
          /\ pc' = "found"
          /\ borrowed' = TRUE
          /\ UNCHANGED <<num_app, tasks, current_task, current, flow,
                         now, info, calls, snap, ncalls, dispatched, since>>)

\* lines 126-132 as called at line 137; the borrow ends with the function
FindNextTask ==
    /\ pc = "marked"
    /\ ExclusiveAccess(
          /\ next' = FindNext(current_task)
          /\ pc' = "found"
          /\ UNCHANGED <<num_app, tasks, current_task, borrowed, current, flow,
                         now, info, calls, snap, ncalls,
                   dispatched, since>>)

\* ------------------------------------------------------------ run_next_task
\* lines 141-143: first-run accounting
StampedTime(old, t) == IF old = 0 THEN t ELSE old

\* mutant: `current` is read after current_task has been moved to next
OutgoingTask_AfterUpdate(cur, nxt) == nxt

\* lines 139, 145: the slot __switch saves into is that of the task that was
\* current before line 144
OutgoingTask(cur, nxt) == cur

\* lines 138-146: borrow, mark next Running, stamp, move current_task
RunNextTask ==
    /\ pc = "found"
    /\ next # NoTask
    /\ ExclusiveAccess(
          /\ current' = OutgoingTask(current_task, next)
          /\ tasks' = [tasks EXCEPT
                         ![next].task_status = "Running",
                         ![next].init_time = StampedTime(@, now)]
          /\ current_task' = next
          /\ borrowed' = TRUE
          /\ pc' = "rnt_held"
          /\ dispatched' = dispatched \cup {next}
          /\ since' = SinceAfterDispatch(next)
          /\ UNCHANGED <<num_app, next, flow, now, info, calls, snap, ncalls>>)

\* mutant: inner is still borrowed when run_next_task reaches __switch
RunNextTaskDrop_Missing ==
    /\ pc = "rnt_held"
    /\ pc' = "rnt_switch"
    /\ UNCHANGED <<num_app, tasks, current_task, borrowed, next, current, flow,
                   now, info, calls, snap, ncalls, dispatched, since>>

\* line 147: drop(inner)
RunNextTaskDrop ==
    /\ pc = "rnt_held"
    /\ borrowed' = FALSE
    /\ pc' = "rnt_switch"
    /\ UNCHANGED <<num_app, tasks, current_task, next, current, flow, now,
                   info, calls, snap, ncalls,
                   dispatched, since>>

\* lines 149-151: __switch(current_task_cx_ptr, next_task_cx_ptr) saves the
\* executing flow into the outgoing slot, then loads the incoming slot
RunNextTaskSwitch ==
    /\ pc = "rnt_switch"
    /\ LET saved == [tasks EXCEPT ![current].task_cx = SavedCx(flow)]
       IN  /\ tasks' = saved
           /\ flow' = LoadedFlow(saved[next].task_cx, next)
    /\ next' = NoTask
    /\ pc' = "user"
    /\ UNCHANGED <<num_app, current_task, borrowed, current, now, info, calls,
                   snap, ncalls,
                   dispatched, since>>

\* line 154: panic!("All applications completed!")
RunNextTaskPanic ==
    /\ pc = "found"
    /\ next = NoTask
    /\ pc' = "halted"
    /\ UNCHANGED <<num_app, tasks, current_task, borrowed, next, current, flow,
                   now, info, calls, snap, ncalls,
                   dispatched, since>>

\* ------------------------------------------------------------ telemetry
\* the counter of id in map m, an absent entry read as zero
Count(m, id) == IF id \in DOMAIN m THEN m[id] ELSE 0

\* mutant: the entry is set to 1 instead of incremented
Increased_SetOne(m, id) == (id :> 1) @@ m

\* lines 162-163: entry(syscall_id).or_insert(0), then *val += 1
Increased(m, id) ==
    LET inserted == IF id \in DOMAIN m THEN m ELSE (id :> 0) @@ m
    IN  [inserted EXCEPT ![id] = @ + 1]

\* lines 159-164
IncreaseSyscallCount ==
    /\ pc = "user"
    /\ ncalls < MaxCalls
    /\ \E syscall_id \in SyscallIds :
          ExclusiveAccess(
             /\ tasks' = [tasks EXCEPT ![current_task].syscall_times =
                                           Increased(@, syscall_id)]
             /\ calls' = [calls EXCEPT ![current_task][syscall_id] = @ + 1]
             /\ ncalls' = ncalls + 1
             /\ info' = NoInfo
             /\ UNCHANGED <<num_app, current_task, borrowed, pc, next, current,
                            flow, now, snap, dispatched, since>>)

\* line 171: count[*key as usize] = *val, for the keys in ascending order
RECURSIVE Fill(_, _, _)
Fill(count, m, keys) ==
    IF keys = {} THEN count
    ELSE LET key == CHOOSE k \in keys : \A j \in keys : k <= j
         IN  Fill([count EXCEPT ![key] = m[key]], m, keys \ {key})

\* mutant: the array records which ids were called, not how often
DenseCounts_Presence(m) ==
    [i \in 0 .. (MAX_SYSCALL_NUM - 1) |-> IF i \in DOMAIN m THEN 1 ELSE 0]

\* lines 169-172: [0u32; MAX_SYSCALL_NUM] filled from the map
DenseCounts(m) ==
    Fill([i \in 0 .. (MAX_SYSCALL_NUM - 1) |-> 0], m, DOMAIN m)

\* line 173: (get_time_us() - init_time) / 1000
ElapsedMs(t, init_time) == (t - init_time) \div US_PER_MS

\* mutant: the array is taken to have one more element
IndexOutOfBounds_OffByOne(m) == \E key \in DOMAIN m : key > MAX_SYSCALL_NUM

\* line 171: indexing [u32; MAX_SYSCALL_NUM] with a key outside it panics
IndexOutOfBounds(m) == \E key \in DOMAIN m : key >= MAX_SYSCALL_NUM

\* lines 166-179; line 171 panics on a key outside the array
GetCurrentTaskInfo ==
    /\ pc = "user"
    /\ ExclusiveAccess(
          LET tcb == tasks[current_task]
          IN  IF IndexOutOfBounds(tcb.syscall_times)
              THEN /\ pc' = "index_panic"
                   /\ borrowed' = TRUE
                   /\ info' = NoInfo
                   /\ UNCHANGED snap
              ELSE /\ info' = [status |-> tcb.task_status,
                               syscall_times |-> DenseCounts(tcb.syscall_times),
                               time |-> ElapsedMs(now, tcb.init_time)]
                   /\ snap' = [snap EXCEPT ![current_task] =
                                  ElapsedMs(now, tcb.init_time)]
                   /\ UNCHANGED <<pc, borrowed>>)
    /\ UNCHANGED <<num_app, tasks, current_task, next, current, flow, now, calls,
                   ncalls,
                   dispatched, since>>

\* ------------------------------------------------------------ specification
\* the scheduler: run_first_task, then the tasks' suspends and exits
Sched ==
    \/ RunFirstTask
    \/ RunFirstTaskDrop
    \/ RunFirstTaskSwitch
    \/ MarkCurrentSuspended
    \/ MarkCurrentExited
    \/ FindNextTask
    \/ RunNextTask
    \/ RunNextTaskDrop
    \/ RunNextTaskSwitch
    \/ RunNextTaskPanic

\* the scheduler and the telemetry hooks, the clock standing at its boot reading
Next ==
    \/ Sched
    \/ IncreaseSyscallCount
    \/ GetCurrentTaskInfo

Spec == Init /\ [][Next]_vars

\* the scheduler and the snapshots under an advancing clock
NextClock ==
    \/ Sched
    \/ Tick
    \/ GetCurrentTaskInfo

SpecClock == Init /\ [][NextClock]_vars

\* the steps the kernel takes by itself once an operation has been entered
KernelStep ==
    \/ RunFirstTask
    \/ RunFirstTaskDrop
    \/ RunFirstTaskSwitch
    \/ FindNextTask
    \/ RunNextTask
    \/ RunNextTaskDrop
    \/ RunNextTaskSwitch
    \/ RunNextTaskPanic

\* the scheduler alone, the processor never stopping inside the kernel and
\* no task yielding forever: whenever tasks keep running, one of them exits
SpecFair ==
    /\ Init
    /\ [][Sched]_vars
    /\ WF_vars(KernelStep)
    /\ SF_vars(MarkCurrentExited)

\* ------------------------------------------------------------ properties
Status(i) == tasks[i].task_status
ActiveIds == 0 .. (num_app - 1)
RunningSet == {i \in TaskIds : Status(i) = "Running"}
Halted == pc = "halted"
NoReadyTask == \A i \in ActiveIds : Status(i) # "Ready"

\* C1 (as stated): in every reachable state exactly one TCB is Running, or
\* zero TCBs are Running if and only if the system has halted via BatchComplete.
C1_Original ==
    \/ Cardinality(RunningSet) = 1 /\ ~Halted
    \/ Cardinality(RunningSet) = 0 /\ Halted

\* C1 (amended): at most one TCB is Running and, when one is, it is the TCB at
\* current_task; zero TCBs are Running exactly before run_first_task, in the
\* window between mark_current_* and run_next_task's status update, and from
\* the BatchComplete halt on.
C1_RunningCount ==
    /\ Cardinality(RunningSet) <= 1
    /\ RunningSet \subseteq {current_task}
    /\ RunningSet = {} <=> pc \in {"boot", "marked", "found", "halted"}

\* C1 witness: a batch of two has run to the BatchComplete halt
C1_Witness ==
    /\ Halted /\ num_app = 2
    /\ RunningSet = {}
    /\ \A i \in ActiveIds : Status(i) = "Exited"

\* C2: with N >= 1 tasks, none exited, every dispatch that follows a suspend
\* selects (current_task + 1) mod N, so a task id recurs after exactly N steps.
C2_RoundRobin ==
    [][(/\ pc = "found" /\ pc' = "rnt_held"
        /\ num_app >= 1
        /\ \A i \in ActiveIds : Status(i) \in {"Ready", "Running"})
       => current_task' = (current_task + 1) % num_app]_vars

\* C2 witness: three tasks, no exits, task 0 dispatched again after the cycle
C2_Witness ==
    /\ num_app = 3 /\ pc = "user" /\ current_task = 0
    /\ \A i \in ActiveIds : Status(i) \in {"Ready", "Running"}
    /\ \A i \in ActiveIds : tasks[i].task_cx.ra = "switch"

\* C3: once a task is Exited it stays Exited, find_next_task never returns
\* its id, and once current_task has left it, it never becomes current again.
C3_ExitedStays ==
    [][\A i \in TaskIds :
          Status(i) = "Exited" =>
             /\ tasks'[i].task_status = "Exited"
             /\ next' # i
             /\ (current_task # i => current_task' # i)]_vars

\* C3 witness: task 2 has exited and task 0 has been dispatched again since
C3_Witness ==
    /\ num_app = 3 /\ pc = "user" /\ current_task = 0
    /\ Status(2) = "Exited"
    /\ tasks[2].task_cx.ra = "switch"
    /\ tasks[0].task_cx.ra = "switch"

\* C4: for every task t and syscall id, t's counter for id (an absent entry
\* counted as zero) equals the number of increase_syscall_count(id) calls
\* issued while t was current, and is non-negative.
C4_CountersMatchCalls ==
    \A t \in TaskIds :
       /\ DOMAIN tasks[t].syscall_times \subseteq SyscallIds
       /\ \A id \in SyscallIds :
             /\ Count(tasks[t].syscall_times, id) = calls[t][id]
             /\ Count(tasks[t].syscall_times, id) >= 0

\* C4 witness: two tasks have made calls, one of them twice for one id, and
\* the first has been switched out since
C4_Witness ==
    \E t1, t2 \in TaskIds : \E id1, id2 \in SyscallIds :
       /\ t1 # t2 /\ current_task = t2
       /\ calls[t1][id1] = 2 /\ calls[t2][id2] = 1
       /\ tasks[t1].syscall_times[id1] = 2
       /\ id2 \notin DOMAIN tasks[t1].syscall_times

\* the ids of the dense array
DenseIds == 0 .. (MAX_SYSCALL_NUM - 1)

\* C5: a TaskInfo returned by get_current_task_info holds, for every id of the
\* dense array, the number of calls the current task made for that id (0 for
\* an id never called), and the current task's status.
C5_SnapshotMatches ==
    info # NoInfo =>
       /\ DOMAIN info.syscall_times = DenseIds
       /\ \A id \in DenseIds :
             info.syscall_times[id] =
                (IF id \in SyscallIds THEN calls[current_task][id] ELSE 0)
       /\ info.status = Status(current_task)

\* C5 witness: a single task, three calls for one id, then the snapshot
C5_Witness ==
    /\ num_app = 1 /\ info # NoInfo
    /\ calls[0][MAX_SYSCALL_NUM - 1] = 3
    /\ info.syscall_times[MAX_SYSCALL_NUM - 1] = 3
    /\ \A id \in DenseIds \ {MAX_SYSCALL_NUM - 1} : info.syscall_times[id] = 0

\* C6: a dispatch attempted while no active task is Ready ends in the
\* BatchComplete halt, and the halt is reached only when no active task is Ready.
C6_BatchComplete ==
    /\ [](Halted => NoReadyTask)
    /\ [][(pc = "found" /\ NoReadyTask /\ pc' # pc) => pc' = "halted"]_vars
    /\ [][(pc = "marked" /\ NoReadyTask /\ pc' # pc) => next' = NoTask]_vars

\* C6 witness: all three tasks have exited and the dispatch has halted
C6_Witness ==
    /\ Halted /\ num_app = 3
    /\ \A i \in ActiveIds : Status(i) = "Exited"

\* C7: the elapsed time of a TaskInfo is non-negative, and between two
\* successive snapshots of the same task it does not decrease, whatever
\* suspends and re-dispatches lie between them.
C7_ElapsedMonotone ==
    /\ [](\A t \in TaskIds : snap[t] >= -1)
    /\ [][\A t \in TaskIds : snap[t] # -1 => snap'[t] >= snap[t]]_vars

\* C8: run_first_task marks slot 0 Running and records the clock reading as
\* its start time; its switch leaves the boot flow for good and runs task 0;
\* after it current_task is 0 and every other active task is still Ready.
C8_RunFirstTask ==
    /\ [][(pc = "boot" /\ pc' # pc) =>
             /\ tasks'[0].task_status = "Running"
             /\ tasks'[0].init_time = now]_vars
    /\ [][(pc = "rft_switch" /\ pc' # pc) =>
             /\ flow' = 0
             /\ current_task' = 0
             /\ tasks'[0].task_status = "Running"
             /\ \A i \in ActiveIds \ {0} : tasks'[i].task_status = "Ready"]_vars
    /\ [][flow # BootFlow => flow' # BootFlow]_vars
    /\ [](pc \notin {"boot", "rft_held", "rft_switch"} => flow # BootFlow)

\* C8 witness: task 0 of three runs from its entry, stamped with a clock
\* reading past boot, the others still Ready
C8_Witness ==
    /\ num_app = 3 /\ pc = "user" /\ flow = 0 /\ current_task = 0
    /\ tasks[0].task_cx.ra = "entry"
    /\ Status(0) = "Running" /\ tasks[0].init_time = 500
    /\ Status(1) = "Ready" /\ Status(2) = "Ready"

\* C9: current_task is in [0, active_count) in every reachable state, for
\* every active_count from 0 up to the pool capacity.
C9_CurrentInRange == current_task \in ActiveIds

\* C10: at most one TCB is Running in every state, the states between
\* mark_current_* and run_next_task and a self-yield included.
C10_AtMostOneRunning == Cardinality(RunningSet) <= 1

\* C10 witness: a single task yields to itself and is marked Running again,
\* the switch still to come
C10_Witness ==
    /\ num_app = 1 /\ pc = "rnt_held"
    /\ current = current_task /\ next = current_task
    /\ RunningSet = {0}

\* C11: a task's start time is set at its first transition into Running, to
\* the clock reading of that instant, and no later step changes it, whatever
\* the clock read at the first dispatch (0 included).
C11_StartTimeSetOnce ==
    /\ [][\A t \in TaskIds :
             (t \notin dispatched /\ t \in dispatched') =>
                tasks'[t].init_time = now]_vars
    /\ [][\A t \in TaskIds :
             t \in dispatched => tasks'[t].init_time = tasks[t].init_time]_vars

\* C11 (first half alone): the first dispatch of a task stores the clock
\* reading of that instant as its start time
C11_StampedAtFirstDispatch ==
    [][\A t \in TaskIds :
          (t \notin dispatched /\ t \in dispatched') =>
             tasks'[t].init_time = now]_vars

\* the status changes a step may make to TCB i: Ready -> Running on dispatch,
\* Running -> Ready on suspend, Running -> Exited on exit
LegalStatusStep(i) ==
    \/ tasks'[i].task_status = Status(i)
    \/ /\ Status(i) = "Ready" /\ tasks'[i].task_status = "Running"
       /\ RunFirstTask \/ RunNextTask
    \/ /\ Status(i) = "Running" /\ tasks'[i].task_status = "Ready"
       /\ MarkCurrentSuspended
    \/ /\ Status(i) = "Running" /\ tasks'[i].task_status = "Exited"
       /\ MarkCurrentExited

\* C12: every status change of every TCB follows the per-task state machine;
\* UnInit -> Ready happens at boot initialization only, so no step leaves
\* UnInit, none enters Running but from Ready, none leaves Exited.
C12_StateMachine == [][\A i \in TaskIds : LegalStatusStep(i)]_vars

\* C12 for a populated batch: the same state machine when the loader reports
\* at least one app
C12_StateMachinePopulated ==
    [][num_app >= 1 => \A i \in TaskIds : LegalStatusStep(i)]_vars

\* the place of id in the scan that starts after current_task: 1 for
\* current_task + 1, ..., num_app for current_task itself
ScanPlace(id) ==
    IF id > current_task THEN id - current_task
    ELSE id - current_task + num_app

\* C13: find_next_task returns the Ready task nearest after current_task in
\* cyclic order, current_task itself being the farthest, and None exactly
\* when no active task is Ready.
C13_FirstReadyInScan ==
    pc = "found" =>
       /\ next = NoTask <=> NoReadyTask
       /\ next # NoTask =>
             /\ next \in ActiveIds
             /\ Status(next) = "Ready"
             /\ \A j \in ActiveIds :
                   Status(j) = "Ready" => ScanPlace(next) <= ScanPlace(j)

\* C13 witness: of three tasks 0 and 1 have suspended and 2 has exited; the
\* scan from 2 has selected 0, although 1 is Ready as well
C13_Witness ==
    /\ num_app = 3 /\ pc = "found" /\ current_task = 2
    /\ Status(0) = "Ready" /\ Status(1) = "Ready" /\ Status(2) = "Exited"
    /\ tasks[0].task_cx.ra = "switch" /\ tasks[1].task_cx.ra = "switch"
    /\ next = 0

\* C14: exclusive access is not held when __switch is invoked, in
\* run_first_task and in run_next_task alike, so the flow that resumes finds
\* the cell free and its next exclusive_access does not abort.
C14_ReleasedBeforeSwitch ==
    /\ pc \in {"rft_switch", "rnt_switch"} => ~borrowed
    /\ pc = "user" => ~borrowed
    /\ pc # "borrow_panic"

\* C14 witness: a task that was resumed by a switch of run_next_task has
\* taken exclusive access again (in mark_current_*) and is about to switch
C14_Witness ==
    /\ pc = "rnt_switch" /\ ~borrowed
    /\ num_app = 2
    /\ tasks[0].task_cx.ra = "switch" /\ tasks[1].task_cx.ra = "switch"

\* tasks with only the status of the TCB at current_task replaced by st
OnlyCurrentStatus(st) == [tasks EXCEPT ![current_task].task_status = st]

\* C15: mark_current_suspended (mark_current_exited) changes nothing but the
\* status of the TCB at current_task, which becomes Ready (Exited):
\* current_task, the other statuses, all contexts, counters and start times
\* stay as they are, and no switch happens (the executing flow is the same).
C15_MarkFrame ==
    /\ [][MarkCurrentSuspended =>
             /\ tasks' = OnlyCurrentStatus("Ready")
             /\ UNCHANGED <<current_task, flow, num_app>>]_vars
    /\ [][MarkCurrentExited =>
             /\ tasks' = OnlyCurrentStatus("Exited")
             /\ UNCHANGED <<current_task, flow, num_app>>]_vars
    /\ [][(pc = "user" /\ pc' = "marked") =>
             /\ \A i \in TaskIds \ {current_task} : tasks'[i] = tasks[i]
             /\ tasks'[current_task].task_cx = tasks[current_task].task_cx
             /\ tasks'[current_task].syscall_times =
                   tasks[current_task].syscall_times
             /\ tasks'[current_task].init_time = tasks[current_task].init_time
             /\ tasks'[current_task].task_status \in {"Ready", "Exited"}
             /\ UNCHANGED <<current_task, flow>>]_vars

\* C15 witness: task 1 of two, holding a counter and a saved context, has
\* been marked Exited and nothing has been dispatched yet
C15_Witness ==
    /\ pc = "marked" /\ num_app = 2 /\ current_task = 1 /\ flow = 1
    /\ Status(1) = "Exited" /\ Status(0) = "Ready"
    /\ tasks[0].task_cx.ra = "switch"
    /\ DOMAIN tasks[1].syscall_times # {}

\* C16: the executing flow is always the task at current_task: a switch of
\* run_next_task leaves the flow of the task just marked Running executing,
\* every saved context holds the resume point of its own task, and the flow
\* changes at a switch only, to the task the dispatch selected.
C16_OneFlow ==
    /\ [](pc = "user" => flow = current_task /\ Status(flow) = "Running")
    /\ [](pc \in {"marked", "found"} => flow = current_task)
    /\ [](pc \in {"rnt_held", "rnt_switch"} =>
             flow = current /\ next = current_task)
    /\ [](\A i \in TaskIds :
             tasks[i].task_cx.ra = "switch" => tasks[i].task_cx.flow = i)
    /\ [][flow' # flow =>
             /\ pc \in {"rft_switch", "rnt_switch"}
             /\ flow' = current_task
             /\ flow' \in dispatched]_vars
    /\ [][(pc = "rnt_switch" /\ pc' # pc) =>
             /\ flow' = next
             /\ tasks'[current].task_cx = SavedCx(current)
             /\ \A i \in TaskIds \ {current} :
                   tasks'[i].task_cx = tasks[i].task_cx]_vars

\* C16 witness: task 0 of two, switched out inside its suspend, runs again
\* after task 1 has been switched out in turn
C16_Witness ==
    /\ pc = "user" /\ num_app = 2 /\ flow = 0 /\ current_task = 0
    /\ tasks[0].task_cx = SavedCx(0) /\ tasks[1].task_cx = SavedCx(1)
    /\ Status(0) = "Running" /\ Status(1) = "Ready"

\* C17: with at least one app, and every task exiting after finitely many
\* suspends, the BatchComplete halt is reached; in the halted state every
\* active task is Exited and has been dispatched at least once.
C17_BatchCompletes ==
    /\ (num_app >= 1) ~> Halted
    /\ [](Halted => \A i \in ActiveIds :
                       Status(i) = "Exited" /\ i \in dispatched)

\* C17 witness: a batch of three has halted, each task having been switched
\* out at least once on the way
C17_Witness ==
    /\ Halted /\ num_app = 3 /\ dispatched = {0, 1, 2}
    /\ \A i \in ActiveIds :
          Status(i) = "Exited" /\ tasks[i].task_cx.ra = "switch"

\* the dispatches of other tasks that t has seen while waiting as Ready
RECURSIVE SumSince(_, _)
SumSince(t, ids) ==
    IF ids = {} THEN 0
    ELSE LET j == CHOOSE x \in ids : TRUE
         IN  since[t][j] + SumSince(t, ids \ {j})

\* C18: while a task waits as Ready no other task is dispatched more than
\* once, so it runs again after at most active_count - 1 dispatches of
\* others, whatever the others do (suspend or exit).
C18_BoundedWaiting ==
    \A t \in ActiveIds :
       Status(t) = "Ready" =>
          /\ \A j \in TaskIds : since[t][j] <= 1
          /\ SumSince(t, TaskIds) <= num_app - 1

\* C18 witness: task 0 of three waits as Ready and has seen both other tasks
\* dispatched once, one of which has exited since
C18_Witness ==
    /\ num_app = 3 /\ pc = "user" /\ current_task = 2
    /\ Status(0) = "Ready" /\ Status(1) = "Exited"
    /\ tasks[0].task_cx.ra = "switch"
    /\ since[0][1] = 1 /\ since[0][2] = 1

\* the positions from which the next step calls exclusive_access
AcquirePoints == {"boot", "user", "marked", "found"}

\* C19: exclusive access is never requested while it is held: at every point
\* where the next step of a public operation calls exclusive_access the cell
\* is free, and the abort of a second acquisition is never reached.
C19_NoReentrantAccess ==
    /\ pc \in AcquirePoints => ~borrowed
    /\ pc # "borrow_panic"
    /\ borrowed => pc \in {"rft_held", "rnt_held", "index_panic"}

\* C19 witness: run_next_task holds the cell it acquired right after
\* find_next_task released it, in a run that also used both telemetry calls
C19_Witness ==
    /\ pc = "rnt_held" /\ borrowed
    /\ ncalls >= 1 /\ snap[current] # -1
    /\ num_app = 2 /\ current # current_task

\* task t holds a counter for an id outside the dense array
HoldsOutOfRange(t) ==
    \E id \in SyscallIds : id >= MAX_SYSCALL_NUM /\ calls[t][id] > 0

\* C20: increase_syscall_count succeeds for every id, out-of-range ones
\* included, and changes the counter of that id only; get_current_task_info
\* fails with the index panic if and only if the current task holds a counter
\* for an id >= MAX_SYSCALL_NUM; a snapshot that is returned never carries an
\* out-of-range count under an in-range id.
C20_OutOfRangeId ==
    /\ [][ncalls' # ncalls =>
             /\ pc = "user" /\ pc' = "user"
             /\ \E id \in SyscallIds :
                   /\ Count(tasks'[current_task].syscall_times, id) =
                         Count(tasks[current_task].syscall_times, id) + 1
                   /\ \A other \in (SyscallIds \cup DenseIds) \ {id} :
                         Count(tasks'[current_task].syscall_times, other) =
                            Count(tasks[current_task].syscall_times, other)]_vars
    /\ [][GetCurrentTaskInfo =>
             /\ pc' = "index_panic" <=> HoldsOutOfRange(current_task)
             /\ pc' # "index_panic" => info' # NoInfo]_vars
    /\ [](pc = "index_panic" => info = NoInfo)
    /\ [](info # NoInfo =>
             /\ ~HoldsOutOfRange(current_task)
             /\ \A id \in DenseIds :
                   info.syscall_times[id] =
                      (IF id \in SyscallIds THEN calls[current_task][id] ELSE 0))

\* C20 witness: get_current_task_info has failed for a task that holds an
\* in-range and an out-of-range counter, after a snapshot of another task,
\* which holds none, had been returned
C20_Witness ==
    /\ pc = "index_panic"
    /\ calls[current_task][MAX_SYSCALL_NUM] >= 1
    /\ calls[current_task][MAX_SYSCALL_NUM - 1] >= 1
    /\ \E t \in ActiveIds \ {current_task} :
          snap[t] # -1 /\ ~HoldsOutOfRange(t)

====
